---- MODULE Spec2Model ----
(***************************************************************************)
(* Downtime reconstruction and OEE analytics of the machine monitor:       *)
(* utils/analytics (getDowntimeIntervals, calculateFleetMetrics,           *)
(* calculatePareto, generateAIInsights), the Shift Clock it calls, the     *)
(* local store of services/api.ts (updateStatus, updateAccumulatedTime,    *)
(* resetDaily), its remote branch as called by concurrent clients, and     *)
(* the daily reset check of context/MachineContext.tsx.                    *)
(*                                                                         *)
(* Units.  The model's time unit is the minute: every ...Ms quantity of    *)
(* the source (epoch instants, durations, accumulatedDowntimeMs) is held   *)
(* in minutes, so 60000 ms is 1.  One-decimal outputs (availability,       *)
(* performance, quality, oee, mtbf) are held in tenths, so 100.0 is 1000.  *)
(* Real-valued intermediate results are exact rationals <<n, d>>.          *)
(***************************************************************************)
EXTENDS Integers, Sequences, FiniteSets, TLC

VARIABLES
  machines,    \* the machine snapshots (store: data.machines; engine: the argument)
  machinesNull,\* engine: TRUE when null is passed in place of the machine list
  history,     \* the event log (store: data.history; engine: the argument)
  workHours,   \* the work-hours config
  now,         \* the wall clock, epoch minutes
  ret,         \* the last engine call: its clock readings and what it returned
  ret2,        \* a repeated engine call on the same inputs; Dashboard: paretoData
  insights,    \* Dashboard: the generateAIInsights call on ret and ret2
  stopStart,   \* ghost: per machine, the instant its stoppage in progress began
  closedSum,   \* ghost: per machine, working time of the stoppages closed since the reset
  clients      \* remote store: the browser clients and their calls in flight

vars == <<machines, machinesNull, history, workHours, now, ret, ret2, insights, stopStart,
          closedSum, clients>>

-----------------------------------------------------------------------------
(* Bounds of the model *)

MaxLog == 2          \* longest event log drawn as an engine input
MaxClockSkew == 1    \* how far the wall clock may advance while one engine call runs
MaxSteps == 3        \* longest event log the store may grow to
MaxTicks == 3        \* how many times the store's clock advances
NumMachines == 2     \* machines the store is created with
MaxReplayLog == 3    \* longest event log of the replay inputs
MaxParetoLog == 3    \* longest event log of the Pareto inputs
MaxIntervalLog == 4  \* longest event log of the interval inputs
NumClients == 2      \* browser clients of the remote store
MaxDays == 1         \* how many nights pass while the clients check for the reset

-----------------------------------------------------------------------------
(* Values of ../types *)

RUNNING == "FUNCIONANDO"
STOPPED == "PARADA"
SECONDS == "seconds"
MINUTES == "minutes"
HOURS == "hours"
JSNull == "null"

Min2(a, b) == IF a < b THEN a ELSE b
Max2(a, b) == IF a > b THEN a ELSE b

-----------------------------------------------------------------------------
(* Exact rationals <<n, d>>, d > 0, in lowest terms, for the source's doubles *)

RECURSIVE GCD(_, _)
GCD(a, b) == IF b = 0 THEN a ELSE GCD(b, a % b)

Abs(a) == IF a < 0 THEN -a ELSE a

Rat(n, d) ==
  LET g == GCD(Abs(n), d) IN <<n \div g, d \div g>>

RatMul(p, q) ==
  LET a == Rat(p[1], q[2])
      b == Rat(q[1], p[2])
  IN  Rat(a[1] * b[1], a[2] * b[2])

RatGt0(p) == p[1] > 0

\* Math.round(x): the integer nearest to x, halves rounded up
MathRound(p) == (2 * p[1] + p[2]) \div (2 * p[2])

\* Math.round(x * 10) / 10, held in tenths
RoundTenths(p) == MathRound(RatMul(p, <<10, 1>>))

-----------------------------------------------------------------------------
(* Timestamps.  An ISO string is held as the date and the time of day it    *)
(* prints: [d |-> day number, m |-> minute of the day].                     *)

DayMin == 24 * 60

getTime(iso) == iso.d * DayMin + iso.m

toISOString(t) == [d |-> t \div DayMin, m |-> t % DayMin]

-----------------------------------------------------------------------------
(* Shift Clock (utils/timeCalculations) *)

\* the part of [s, e) inside the shift window of day number day
DayOverlap(s, e, day, config) ==
  LET lo == Max2(s, day * DayMin + config.start)
      hi == Min2(e, day * DayMin + config.end)
  IN  Max2(0, hi - lo)

RECURSIVE SumDays(_, _, _, _, _)
SumDays(s, e, day, lastDay, config) ==
  IF day > lastDay THEN 0
  ELSE DayOverlap(s, e, day, config) + SumDays(s, e, day + 1, lastDay, config)

workingMsBetween(s, e, config) ==
  IF e <= s THEN 0
  ELSE IF ~config.enabled THEN e - s
  ELSE SumDays(s, e, s \div DayMin, e \div DayMin, config)

getElapsedShiftTimeTodayMs(config, nowInstant) ==
  LET midnight == (nowInstant \div DayMin) * DayMin IN
  IF ~config.enabled THEN nowInstant - midnight
  ELSE workingMsBetween(midnight + config.start, nowInstant, config)

calculateActiveDowntime(openedAt, config, nowInstant) ==
  workingMsBetween(getTime(openedAt), nowInstant, config)

-----------------------------------------------------------------------------
(* utils/analytics: getCycleTimeInSeconds *)

\* mutant: the unit is ignored, the value taken as seconds
getCycleTimeInSecondsNoUnit(val, unit) == IF val <= 0 THEN 30 ELSE val

getCycleTimeInSeconds(val, unit) ==
  IF val <= 0 THEN 30
  ELSE IF unit = MINUTES THEN val * 60
  ELSE IF unit = HOURS THEN val * 3600
  ELSE val

-----------------------------------------------------------------------------
(* utils/analytics: getDowntimeIntervals *)

\* [...history].sort((a, b) => time(a) - time(b)): a stable sort, so events of
\* equal timestamp keep the order in which the log stores them
RECURSIVE InsertByTime(_, _)
InsertByTime(sorted, log) ==
  IF sorted = <<>> THEN <<log>>
  ELSE IF getTime(sorted[Len(sorted)].timestamp) <= getTime(log.timestamp)
       THEN Append(sorted, log)
       ELSE Append(InsertByTime(SubSeq(sorted, 1, Len(sorted) - 1), log),
                   sorted[Len(sorted)])

RECURSIVE SortByTime(_)
SortByTime(logs) ==
  IF logs = <<>> THEN <<>>
  ELSE InsertByTime(SortByTime(SubSeq(logs, 1, Len(logs) - 1)), logs[Len(logs)])

sortedLogs(logs) == SortByTime(logs)

\* mutant: history.sort(...) without the copy sorts the caller's array
historyAfterSortInPlace(logs) == SortByTime(logs)

\* [...history].sort(...): the sort works on a copy, so the array the caller
\* passed as history holds after the call what it held before
historyAfterSort(logs) == logs

\* log.reason || 'Desconhecido'
ReasonOrUnknown(reason) ==
  IF reason = JSNull \/ reason = "" THEN "Desconhecido" ELSE reason

\* mutant: the open stoppage stays after the running event has closed it
DeleteKeyKept(activeStops, id) == activeStops

\* delete activeStops[id]
DeleteKey(activeStops, id) ==
  [k \in DOMAIN activeStops \ {id} |-> activeStops[k]]

\* mutant: a stop event for a machine whose stoppage is already open is ignored
ReplayLogKeepFirst(st, log, filterStart) ==
  LET ts == getTime(log.timestamp) IN
  IF \E f \in filterStart : ts < f THEN st
  ELSE IF log.newStatus = STOPPED
  THEN IF log.machineId \in DOMAIN st.activeStops THEN st
       ELSE [st EXCEPT !.activeStops =
               (log.machineId :> [start |-> ts, reason |-> ReasonOrUnknown(log.reason)])
                 @@ st.activeStops]
  ELSE IF log.newStatus = RUNNING /\ log.machineId \in DOMAIN st.activeStops
  THEN LET start == st.activeStops[log.machineId].start IN
       [intervals |-> Append(st.intervals,
                        [machineId |-> log.machineId,
                         reason |-> st.activeStops[log.machineId].reason,
                         start |-> start,
                         end |-> ts,
                         duration |-> ts - start]),
        activeStops |-> DeleteKey(st.activeStops, log.machineId)]
  ELSE st

\* mutant: the duration of a closed interval is clipped to the 08:00-18:49 shift
ReplayLogClipped(st, log, filterStart) ==
  LET ts == getTime(log.timestamp) IN
  IF \E f \in filterStart : ts < f THEN st
  ELSE IF log.newStatus = STOPPED
  THEN [st EXCEPT !.activeStops =
          (log.machineId :> [start |-> ts, reason |-> ReasonOrUnknown(log.reason)])
            @@ st.activeStops]
  ELSE IF log.newStatus = RUNNING /\ log.machineId \in DOMAIN st.activeStops
  THEN LET start == st.activeStops[log.machineId].start IN
       [intervals |-> Append(st.intervals,
                        [machineId |-> log.machineId,
                         reason |-> st.activeStops[log.machineId].reason,
                         start |-> start,
                         end |-> ts,
                         duration |-> workingMsBetween(start, ts,
                                        [enabled |-> TRUE, start |-> 8 * 60,
                                         end |-> 18 * 60 + 49])]),
        activeStops |-> DeleteKey(st.activeStops, log.machineId)]
  ELSE st

\* the body of sortedLogs.forEach; st = [intervals, activeStops]; filterStart is
\* the set holding the optional lower bound, empty when the argument is absent
ReplayLog(st, log, filterStart) ==
  LET ts == getTime(log.timestamp) IN
  IF \E f \in filterStart : ts < f THEN st
  ELSE IF log.newStatus = STOPPED
  THEN [st EXCEPT !.activeStops =
          (log.machineId :> [start |-> ts, reason |-> ReasonOrUnknown(log.reason)])
            @@ st.activeStops]
  ELSE IF log.newStatus = RUNNING /\ log.machineId \in DOMAIN st.activeStops
  THEN LET start == st.activeStops[log.machineId].start IN
       [intervals |-> Append(st.intervals,
                        [machineId |-> log.machineId,
                         reason |-> st.activeStops[log.machineId].reason,
                         start |-> start,
                         end |-> ts,
                         duration |-> ts - start]),
        activeStops |-> DeleteKey(st.activeStops, log.machineId)]
  ELSE st

RECURSIVE Replay(_, _, _)
Replay(logs, st, filterStart) ==
  IF logs = <<>> THEN st
  ELSE Replay(Tail(logs), ReplayLog(st, Head(logs), filterStart), filterStart)

EmptyReplay == [intervals |-> <<>>, activeStops |-> <<>>]

\* mutant: an open stoppage yields an interval whatever the snapshot's status
OpenIntervalAnyStatus(intervals, activeStops, m, config, nowRead) ==
  IF m.id \in DOMAIN activeStops
  THEN LET start == activeStops[m.id].start IN
       Append(intervals,
         [machineId |-> m.id,
          reason |-> activeStops[m.id].reason,
          start |-> start,
          end |-> nowRead,
          duration |-> calculateActiveDowntime(toISOString(start), config, nowRead)])
  ELSE intervals

\* the body of machines.forEach at the end of getDowntimeIntervals
OpenInterval(intervals, activeStops, m, config, nowRead) ==
  IF m.status = STOPPED /\ m.id \in DOMAIN activeStops
  THEN LET start == activeStops[m.id].start IN
       Append(intervals,
         [machineId |-> m.id,
          reason |-> activeStops[m.id].reason,
          start |-> start,
          end |-> nowRead,
          duration |-> calculateActiveDowntime(toISOString(start), config, nowRead)])
  ELSE intervals

RECURSIVE OpenIntervals(_, _, _, _, _)
OpenIntervals(intervals, activeStops, ms, config, nowRead) ==
  IF ms = <<>> THEN intervals
  ELSE OpenIntervals(OpenInterval(intervals, activeStops, Head(ms), config, nowRead),
                     activeStops, Tail(ms), config, nowRead)

\* nowRead is what Date.now() returns at line 429
getDowntimeIntervals(logs, ms, config, filterStart, nowRead) ==
  LET st == Replay(sortedLogs(logs), EmptyReplay, filterStart) IN
  OpenIntervals(st.intervals, st.activeStops, ms, config, nowRead)

-----------------------------------------------------------------------------
(* utils/analytics: calculateFleetMetrics *)

THIRTY_DAYS_MS == 30 * 24 * 60

RatDiv(p, q) == RatMul(p, <<q[2], q[1]>>)

\* mutant: the intervals of every machine kept
FilterByMachineAll(intervals, id) == intervals

\* intervals.filter(i => i.machineId === machine.id)
RECURSIVE FilterByMachine(_, _)
FilterByMachine(intervals, id) ==
  IF intervals = <<>> THEN <<>>
  ELSE IF Head(intervals).machineId = id
       THEN <<Head(intervals)>> \o FilterByMachine(Tail(intervals), id)
       ELSE FilterByMachine(Tail(intervals), id)

\* reduce((acc, curr) => acc + curr.duration, 0)
RECURSIVE SumDuration(_)
SumDuration(intervals) ==
  IF intervals = <<>> THEN 0
  ELSE Head(intervals).duration + SumDuration(Tail(intervals))

\* mutant: the upper cap left out
ClampPercentNoCap(p) == Max2(0, RoundTenths(p))

\* Math.min(100, Math.max(0, Math.round(x * 10) / 10)), in tenths
ClampPercent(p) == Min2(1000, Max2(0, RoundTenths(p)))

\* mutant: the quality factor left out
OeePercentNoQuality(availability, performance, quality) ==
  RatMul(RatMul(RatDiv(availability, <<100, 1>>), RatDiv(performance, <<100, 1>>)),
         <<100, 1>>)

\* (availability / 100) * (performance / 100) * (quality / 100) * 100
OeePercent(availability, performance, quality) ==
  RatMul(RatMul(RatMul(RatDiv(availability, <<100, 1>>),
                       RatDiv(performance, <<100, 1>>)),
                RatDiv(quality, <<100, 1>>)),
         <<100, 1>>)

\* mutant: the live stoppage time is added whatever the machine's status
CurrentStopDurationAnyStatus(machine, config, nowRead) ==
  calculateActiveDowntime(machine.lastUpdated, config, nowRead)

\* const currentStopDuration: nowRead is the clock reading that
\* calculateActiveDowntime(machine.lastUpdated, workHours) takes by default
CurrentStopDuration(machine, config, nowRead) ==
  IF machine.status = STOPPED
  THEN calculateActiveDowntime(machine.lastUpdated, config, nowRead)
  ELSE 0

\* const availability
Availability(runTimeMs, plannedProductionTimeMs) ==
  IF plannedProductionTimeMs > 0
  THEN Rat(runTimeMs * 100, plannedProductionTimeMs)
  ELSE <<0, 1>>

\* const cycleTimeSeconds: a machine record without the field cycleTimeValue
\* has the value undefined, which !val sends to the 30 s fallback
CycleTimeSeconds(machine) ==
  IF "cycleTimeValue" \in DOMAIN machine
  THEN getCycleTimeInSeconds(machine.cycleTimeValue, machine.cycleTimeUnit)
  ELSE 30

\* const theoreticalMaxProduction
TheoreticalMaxProduction(runTimeSeconds, cycleTimeSeconds) ==
  IF cycleTimeSeconds > 0
  THEN Rat(runTimeSeconds, cycleTimeSeconds)
  ELSE <<0, 1>>

\* const performance
Performance(totalProduced, theoreticalMaxProduction) ==
  IF RatGt0(theoreticalMaxProduction)
  THEN RatMul(RatDiv(<<totalProduced, 1>>, theoreticalMaxProduction), <<100, 1>>)
  ELSE <<0, 1>>

\* mutant: nothing produced counts as 0% quality
QualityZeroWhenNone(productionCount, totalProduced) ==
  IF totalProduced > 0
  THEN Rat(productionCount * 100, totalProduced)
  ELSE <<0, 1>>

\* const quality
Quality(productionCount, totalProduced) ==
  IF totalProduced > 0
  THEN Rat(productionCount * 100, totalProduced)
  ELSE <<100, 1>>

\* the body of machines.map
MachineMetricsOf(machine, intervals, plannedProductionTimeMs, config, nowRead) ==
  LET machineIntervalsAll == FilterByMachine(intervals, machine.id)
      totalDowntimeHistorical == SumDuration(machineIntervalsAll)
      failureCount == Len(machineIntervalsAll)
      mttrMinutes == IF failureCount > 0
                     THEN Rat(totalDowntimeHistorical, failureCount)
                     ELSE <<0, 1>>
      uptimeHistorical == THIRTY_DAYS_MS - totalDowntimeHistorical
      mtbfHours == IF failureCount > 0
                   THEN Rat(uptimeHistorical, failureCount * 60)
                   ELSE Rat(uptimeHistorical, 60)
      currentStopDuration == CurrentStopDuration(machine, config, nowRead)
      downtimeTodayMs == machine.accumulatedDowntimeMs + currentStopDuration
      runTimeMs == Max2(0, plannedProductionTimeMs - downtimeTodayMs)
      availability == Availability(runTimeMs, plannedProductionTimeMs)
      cycleTimeSeconds == CycleTimeSeconds(machine)
      runTimeSeconds == runTimeMs * 60
      theoreticalMaxProduction == TheoreticalMaxProduction(runTimeSeconds, cycleTimeSeconds)
      totalProduced == machine.productionCount + machine.scrapCount
      performance == Performance(totalProduced, theoreticalMaxProduction)
      quality == Quality(machine.productionCount, totalProduced)
      oee == OeePercent(availability, performance, quality)
  IN  [machineId |-> machine.id,
       machineName |-> machine.name,
       totalDowntimeMs |-> downtimeTodayMs,
       failureCount |-> failureCount,
       mtbf |-> RoundTenths(mtbfHours),
       mttr |-> MathRound(mttrMinutes),
       availability |-> ClampPercent(availability),
       performance |-> ClampPercent(performance),
       quality |-> ClampPercent(quality),
       oee |-> ClampPercent(oee)]

\* mutant: only the machines that the event log mentions get an entry
calculateFleetMetricsLoggedOnly(ms, logs, config, clk) ==
  LET intervals == getDowntimeIntervals(logs, ms, config, {}, clk[1])
      plannedProductionTimeMs == getElapsedShiftTimeTodayMs(config, clk[2])
      kept == SelectSeq(ms, LAMBDA m : \E i \in 1..Len(logs) : logs[i].machineId = m.id)
  IN  [k \in 1..Len(kept) |->
         MachineMetricsOf(kept[k], intervals, plannedProductionTimeMs, config, clk[2 + k])]

\* clk holds what Date.now() returns at each reading the call makes, in order:
\* clk[1] in getDowntimeIntervals, clk[2] in getElapsedShiftTimeTodayMs,
\* clk[2 + k] in calculateActiveDowntime for the k-th machine
calculateFleetMetrics(ms, logs, config, clk) ==
  LET intervals == getDowntimeIntervals(logs, ms, config, {}, clk[1])
      plannedProductionTimeMs == getElapsedShiftTimeTodayMs(config, clk[2])
  IN  [k \in 1..Len(ms) |->
         MachineMetricsOf(ms[k], intervals, plannedProductionTimeMs, config, clk[2 + k])]

-----------------------------------------------------------------------------
(* utils/analytics: calculatePareto *)

\* mutant: the key of a group ignores the case of the reason
GroupIndexIgnoreCase(grouped, reason) ==
  LET Lower(r) == IF r = "A" THEN "a" ELSE r IN
  IF \E k \in 1..Len(grouped) : Lower(grouped[k].reason) = Lower(reason)
  THEN CHOOSE k \in 1..Len(grouped) : Lower(grouped[k].reason) = Lower(reason)
  ELSE 0

\* index of reason among the groups, 0 when it has none yet
GroupIndex(grouped, reason) ==
  IF \E k \in 1..Len(grouped) : grouped[k].reason = reason
  THEN CHOOSE k \in 1..Len(grouped) : grouped[k].reason = reason
  ELSE 0

\* the body of intervals.forEach; grouped keeps the keys in insertion order,
\* the order Object.keys lists them in
GroupInterval(grouped, i) ==
  LET k == GroupIndex(grouped, i.reason) IN
  IF k = 0
  THEN Append(grouped, [reason |-> i.reason, count |-> 1, durationMs |-> i.duration])
  ELSE [grouped EXCEPT ![k] = [reason |-> i.reason,
                               count |-> @.count + 1,
                               durationMs |-> @.durationMs + i.duration]]

RECURSIVE GroupByReason(_, _)
GroupByReason(grouped, intervals) ==
  IF intervals = <<>> THEN grouped
  ELSE GroupByReason(GroupInterval(grouped, Head(intervals)), Tail(intervals))

RECURSIVE SumGroups(_)
SumGroups(grouped) ==
  IF grouped = <<>> THEN 0
  ELSE Head(grouped).durationMs + SumGroups(Tail(grouped))

\* mutant: an item goes before the items of equal duration already sorted
RECURSIVE InsertByDurationBeforeTies(_, _)
InsertByDurationBeforeTies(sorted, item) ==
  IF sorted = <<>> THEN <<item>>
  ELSE IF sorted[Len(sorted)].durationMs > item.durationMs
       THEN Append(sorted, item)
       ELSE Append(InsertByDurationBeforeTies(SubSeq(sorted, 1, Len(sorted) - 1), item),
                   sorted[Len(sorted)])

\* .sort((a, b) => b.durationMs - a.durationMs): stable, descending
RECURSIVE InsertByDuration(_, _)
InsertByDuration(sorted, item) ==
  IF sorted = <<>> THEN <<item>>
  ELSE IF sorted[Len(sorted)].durationMs >= item.durationMs
       THEN Append(sorted, item)
       ELSE Append(InsertByDuration(SubSeq(sorted, 1, Len(sorted) - 1), item),
                   sorted[Len(sorted)])

RECURSIVE SortByDuration(_)
SortByDuration(items) ==
  IF items = <<>> THEN <<>>
  ELSE InsertByDuration(SortByDuration(SubSeq(items, 1, Len(items) - 1)),
                        items[Len(items)])

\* mutant: each item's percent is rounded before it is added
RECURSIVE AccumulatedRoundedItems(_, _, _)
AccumulatedRoundedItems(sorted, k, totalDuration) ==
  IF totalDuration > 0 /\ k > 0
  THEN <<AccumulatedRoundedItems(sorted, k - 1, totalDuration)[1]
           + MathRound(Rat(sorted[k].durationMs * 100, totalDuration)), 1>>
  ELSE <<0, 1>>

\* mutant: the percent of the k-th item alone, not the running sum
AccumulatedItemOnly(sorted, k, totalDuration) ==
  IF totalDuration > 0
  THEN Rat(sorted[k].durationMs * 100, totalDuration)
  ELSE <<0, 1>>

\* accumulated after the first k items: the sum of their percent
Accumulated(sorted, k, totalDuration) ==
  IF totalDuration > 0
  THEN Rat(SumGroups(SubSeq(sorted, 1, k)) * 100, totalDuration)
  ELSE <<0, 1>>

AccumulatePercent(sorted, totalDuration) ==
  [k \in 1..Len(sorted) |->
     [reason |-> sorted[k].reason,
      count |-> sorted[k].count,
      durationMs |-> sorted[k].durationMs,
      accumulatedPercent |-> MathRound(Accumulated(sorted, k, totalDuration))]]

calculatePareto(ms, logs, config, nowRead) ==
  LET intervals == getDowntimeIntervals(logs, ms, config, {}, nowRead)
      grouped == GroupByReason(<<>>, intervals)
      totalDuration == SumGroups(grouped)
      sorted == SortByDuration(grouped)
  IN  AccumulatePercent(sorted, totalDuration)

-----------------------------------------------------------------------------
(* Engine calls.  A call reads the wall clock several times; the readings    *)
(* start at now and never go back.                                          *)

\* n readings of a clock that stands at t at the first one: non-decreasing,
\* the last at most MaxClockSkew later
ClockReadings(t, n) ==
  {c \in [1..n -> t..(t + MaxClockSkew)] :
     /\ c[1] = t
     /\ \A k \in 1..(n - 1) : c[k] <= c[k + 1]}

NoCall == [op |-> "none"]

\* machines.forEach(...) on null raises a TypeError (line 430), which nothing
\* in the engine catches
Threw == [threw |-> TRUE, value |-> <<>>]

Returned(v) == [threw |-> FALSE, value |-> v]

getDowntimeIntervalsCall(nullArg, ms, logs, config, nowRead) ==
  IF nullArg THEN Threw
  ELSE Returned(getDowntimeIntervals(logs, ms, config, {}, nowRead))

calculateFleetMetricsCall(nullArg, ms, logs, config, clk) ==
  IF getDowntimeIntervalsCall(nullArg, ms, logs, config, clk[1]).threw THEN Threw
  ELSE Returned(calculateFleetMetrics(ms, logs, config, clk))

calculateParetoCall(nullArg, ms, logs, config, nowRead) ==
  IF getDowntimeIntervalsCall(nullArg, ms, logs, config, nowRead).threw THEN Threw
  ELSE Returned(calculatePareto(ms, logs, config, nowRead))

CallRecord(op, nullArg, clk, r) ==
  [op |-> op, nullArg |-> nullArg, clk |-> clk, threw |-> r.threw, value |-> r.value]

FleetMetricsRecord(nullArg, clk) ==
  CallRecord("calculateFleetMetrics", nullArg, clk,
             calculateFleetMetricsCall(nullArg, machines, history, workHours, clk))

ParetoRecord(nullArg, clk) ==
  CallRecord("calculatePareto", nullArg, clk,
             calculateParetoCall(nullArg, machines, history, workHours, clk[1]))

CallGetDowntimeIntervals ==
  /\ ret = NoCall
  /\ ret' = CallRecord("getDowntimeIntervals", machinesNull, <<now>>,
                       getDowntimeIntervalsCall(machinesNull, machines, history,
                                                workHours, now))
  /\ history' = historyAfterSort(history)
  /\ UNCHANGED <<machines, machinesNull, workHours, now, ret2, insights, stopStart, closedSum, clients>>

CallCalculateFleetMetrics ==
  /\ ret = NoCall
  /\ \E clk \in ClockReadings(now, IF machinesNull THEN 1 ELSE 2 + Len(machines)) :
       ret' = FleetMetricsRecord(machinesNull, clk)
  /\ history' = historyAfterSort(history)
  /\ UNCHANGED <<machines, machinesNull, workHours, now, ret2, insights, stopStart, closedSum, clients>>

CallCalculatePareto ==
  /\ ret = NoCall
  /\ ret' = ParetoRecord(machinesNull, <<now>>)
  /\ history' = historyAfterSort(history)
  /\ UNCHANGED <<machines, machinesNull, workHours, now, ret2, insights, stopStart, closedSum, clients>>

\* the same call once more, on the same arguments, before the clock variable moves
CallAgain ==
  /\ ret # NoCall
  /\ ret2 = NoCall
  /\ \/ /\ ret.op = "calculateFleetMetrics"
        /\ \E clk \in ClockReadings(now, Len(ret.clk)) :
             ret2' = FleetMetricsRecord(ret.nullArg, clk)
     \/ /\ ret.op = "calculatePareto"
        /\ ret2' = ParetoRecord(ret.nullArg, <<now>>)
  /\ history' = historyAfterSort(history)
  /\ UNCHANGED <<machines, machinesNull, workHours, now, ret, insights, stopStart, closedSum, clients>>

-----------------------------------------------------------------------------
(* Engine inputs *)

INITIAL_WORK_HOURS == [enabled |-> TRUE, start |-> 8 * 60, end |-> 18 * 60 + 49]

WorkHoursOff == [enabled |-> FALSE, start |-> 8 * 60, end |-> 18 * 60 + 49]

Today == 40 * DayMin

TOld == 5 * DayMin + 9 * 60      \* more than 30 days before Today
TPre == Today + 7 * 60           \* 07:00, before the shift
TIn == Today + 9 * 60            \* 09:00, in the shift
NowLog == Today + 10 * 60        \* 10:00

Machine(id, status, lastUpdated, acc, good, scrap, cycleVal, cycleUnit) ==
  [id |-> id,
   name |-> IF id = 1 THEN "Modeladora 1" ELSE "Modeladora 2",
   status |-> status,
   reason |-> IF status = STOPPED THEN "A" ELSE JSNull,
   lastUpdated |-> toISOString(lastUpdated),
   accumulatedDowntimeMs |-> acc,
   notes |-> "",
   lastOperator |-> "Sistema",
   productionCount |-> good,
   scrapCount |-> scrap,
   cycleTimeValue |-> cycleVal,
   cycleTimeUnit |-> cycleUnit]

Event(machineId, newStatus, reason, t) ==
  [machineId |-> machineId,
   previousStatus |-> IF newStatus = STOPPED THEN RUNNING ELSE STOPPED,
   newStatus |-> newStatus,
   reason |-> reason,
   timestamp |-> toISOString(t)]

EventTimes == {TOld, TPre, TIn}

Events ==
  {Event(id, STOPPED, r, t) : id \in {1, 2}, r \in {"A", JSNull}, t \in EventTimes}
    \cup {Event(id, RUNNING, JSNull, t) : id \in {1, 2}, t \in EventTimes}

Histories == UNION {[1..n -> Events] : n \in 0..MaxLog}

\* machine 2 has produced twice what machine 1 has
LogMachine(id, status) == Machine(id, status, TIn, 0, id * 100, 5, 30, SECONDS)

\* machine lists for the event-log inputs: none, machine 1 alone (so that the
\* events of machine 2 refer to no snapshot), and both, stored 2 before 1
LogMachineLists ==
  {<<>>}
    \cup {<<LogMachine(1, s)>> : s \in {RUNNING, STOPPED}}
    \cup {<<LogMachine(2, s2), LogMachine(1, s1)>> : s1, s2 \in {RUNNING, STOPPED}}

\* the collaborator hands over null in place of its machine list
InitNull ==
  /\ machinesNull = TRUE
  /\ machines = <<>>
  /\ history \in Histories
  /\ workHours = INITIAL_WORK_HOURS
  /\ now = NowLog

\* the machine without its field cycleTimeValue
NoCycleTime(m) == [f \in DOMAIN m \ {"cycleTimeValue"} |-> m[f]]

OeeMachinesOf(cycleTimes) ==
  {Machine(1, status, lu, acc, c[1], c[2], y[1], y[2]) :
     status \in {RUNNING, STOPPED},
     lu \in {TPre, TIn},
     acc \in {0, 30, 200},
     c \in {<<0, 0>>, <<100, 5>>, <<500, 0>>, <<0, 7>>},
     y \in cycleTimes}

\* machines of valid, zero and negative cycle time, and machines without one
OeeMachines ==
  OeeMachinesOf({<<30, SECONDS>>, <<0, SECONDS>>, <<1, MINUTES>>, <<1, HOURS>>,
                 <<-5, MINUTES>>})
    \cup {NoCycleTime(m) : m \in OeeMachinesOf({<<1, MINUTES>>})}

OeeNows == {Today + 7 * 60 + 30, Today + 9 * 60, Today + 20 * 60}

NoGhost == <<>>

\* no remote client takes part
NoClients == <<>>

InitLog ==
  /\ machinesNull = FALSE
  /\ machines \in LogMachineLists
  /\ history \in Histories
  /\ workHours = INITIAL_WORK_HOURS
  /\ now = NowLog

InitOee ==
  /\ machinesNull = FALSE
  /\ machines \in {<<m>> : m \in OeeMachines}
  /\ history = <<>>
  /\ workHours \in {INITIAL_WORK_HOURS, WorkHoursOff}
  /\ now \in OeeNows

InitEngine ==
  /\ InitLog \/ InitOee \/ InitNull
  /\ ret = NoCall
  /\ ret2 = NoCall
  /\ insights = NoCall
  /\ stopStart = NoGhost
  /\ closedSum = NoGhost
  /\ clients = NoClients

\* the engine called twice on the same arguments
NextRecalc ==
  \/ CallCalculateFleetMetrics
  \/ CallCalculatePareto
  \/ CallAgain

SpecRecalc == InitEngine /\ [][NextRecalc]_vars

NextEngine ==
  \/ CallGetDowntimeIntervals
  \/ CallCalculateFleetMetrics
  \/ CallCalculatePareto

SpecEngine == InitEngine /\ [][NextEngine]_vars

\* getDowntimeIntervals, alone and under calculatePareto, on longer logs of two
\* machines whose events fall on two instants, so that events share timestamps
ReplayEvents ==
  {Event(id, STOPPED, r, t) : id \in {1, 2}, r \in {"A", JSNull}, t \in {TPre, TIn}}
    \cup {Event(id, RUNNING, JSNull, t) : id \in {1, 2}, t \in {TPre, TIn}}

ReplayHistories == UNION {[1..n -> ReplayEvents] : n \in 0..MaxReplayLog}

ReplayMachineLists ==
  {<<LogMachine(1, RUNNING)>>,
   <<LogMachine(1, STOPPED)>>,
   <<LogMachine(2, STOPPED), LogMachine(1, STOPPED)>>}

InitReplay ==
  /\ machinesNull = FALSE
  /\ machines \in ReplayMachineLists
  /\ history \in ReplayHistories
  /\ workHours = INITIAL_WORK_HOURS
  /\ now = NowLog
  /\ ret = NoCall
  /\ ret2 = NoCall
  /\ insights = NoCall
  /\ stopStart = NoGhost
  /\ closedSum = NoGhost
  /\ clients = NoClients

NextReplay ==
  \/ CallGetDowntimeIntervals
  \/ CallCalculatePareto

SpecReplay == InitReplay /\ [][NextReplay]_vars

\* getDowntimeIntervals on logs long enough for a machine to stop and restart
\* twice
IntervalEvents ==
  {Event(id, s, IF s = STOPPED THEN "A" ELSE JSNull, t) :
     id \in {1, 2}, s \in {STOPPED, RUNNING}, t \in {TPre, TIn}}

IntervalHistories == UNION {[1..n -> IntervalEvents] : n \in 0..MaxIntervalLog}

InitIntervals ==
  /\ machinesNull = FALSE
  /\ machines \in ReplayMachineLists
  /\ history \in IntervalHistories
  /\ workHours = INITIAL_WORK_HOURS
  /\ now = NowLog
  /\ ret = NoCall
  /\ ret2 = NoCall
  /\ insights = NoCall
  /\ stopStart = NoGhost
  /\ closedSum = NoGhost
  /\ clients = NoClients

NextIntervals == CallGetDowntimeIntervals

SpecIntervals == InitIntervals /\ [][NextIntervals]_vars

\* calculatePareto on logs of three stopped machines whose reasons differ in
\* case or are missing
ParetoEvents ==
  {Event(id, STOPPED, r, t) : id \in {1, 2, 3}, r \in {"A", "a", JSNull}, t \in {TPre, TIn}}
    \cup {Event(1, RUNNING, JSNull, TIn)}

ParetoHistories == UNION {[1..n -> ParetoEvents] : n \in 0..MaxParetoLog}

ParetoMachines == <<LogMachine(1, STOPPED), LogMachine(2, STOPPED), LogMachine(3, STOPPED)>>

InitPareto ==
  /\ machinesNull = FALSE
  /\ machines = ParetoMachines
  /\ history \in ParetoHistories
  /\ workHours = INITIAL_WORK_HOURS
  /\ now = NowLog
  /\ ret = NoCall
  /\ ret2 = NoCall
  /\ insights = NoCall
  /\ stopStart = NoGhost
  /\ closedSum = NoGhost
  /\ clients = NoClients

NextPareto == CallCalculatePareto

SpecPareto == InitPareto /\ [][NextPareto]_vars

-----------------------------------------------------------------------------
(* utils/analytics: generateAIInsights, and the Dashboard that calls the   *)
(* engine: fleetMetrics, then paretoData, then aiInsights.  A message is   *)
(* held as the rule that emitted it and the values its text embeds.        *)

RECURSIVE SumOee(_)
SumOee(metrics) ==
  IF metrics = <<>> THEN 0 ELSE Head(metrics).oee + SumOee(Tail(metrics))

\* metrics.reduce((acc, m) => acc + m.oee, 0) / (metrics.length || 1), in tenths
avgOEE(metrics) ==
  Rat(SumOee(metrics), IF Len(metrics) = 0 THEN 1 ELSE Len(metrics))

\* [...metrics].sort((a, b) => a.oee - b.oee): stable, ascending
RECURSIVE InsertByOee(_, _)
InsertByOee(sorted, m) ==
  IF sorted = <<>> THEN <<m>>
  ELSE IF sorted[Len(sorted)].oee <= m.oee
       THEN Append(sorted, m)
       ELSE Append(InsertByOee(SubSeq(sorted, 1, Len(sorted) - 1), m),
                   sorted[Len(sorted)])

\* mutant: the metrics are taken in the order given
SortByOeeUnsorted(metrics) == metrics

RECURSIVE SortByOee(_)
SortByOee(metrics) ==
  IF metrics = <<>> THEN <<>>
  ELSE InsertByOee(SortByOee(SubSeq(metrics, 1, Len(metrics) - 1)),
                   metrics[Len(metrics)])

\* the sort that finds worstMachine works on a copy of metrics
metricsAfterSort(metrics) == metrics

generateAIInsights(metrics, pareto) ==
  LET avg == avgOEE(metrics)
      sorted == SortByOee(metrics)
      first == IF avg[1] < 600 * avg[2]
               THEN <<[rule |-> "OEE Critico", avgOEE |-> avg]>>
               ELSE <<>>
      second == IF sorted # <<>> /\ sorted[1].oee < 700
                THEN <<[rule |-> "Gargalo Identificado",
                        machineName |-> sorted[1].machineName,
                        oee |-> sorted[1].oee]>>
                ELSE <<>>
      third == IF Len(pareto) > 0
               THEN <<[rule |-> "Causa Principal", reason |-> pareto[1].reason]>>
               ELSE <<>>
  IN  first \o second \o third

\* paretoData = calculatePareto(machines, history, workHours), once
\* fleetMetrics is there; its clock reading is no earlier than the last one
CallParetoData ==
  /\ ret.op = "calculateFleetMetrics"
  /\ ~ret.threw
  /\ ret2 = NoCall
  /\ \E t \in ret.clk[Len(ret.clk)]..(now + MaxClockSkew) :
       ret2' = ParetoRecord(machinesNull, <<t>>)
  /\ history' = historyAfterSort(history)
  /\ UNCHANGED <<machines, machinesNull, workHours, now, ret, insights, stopStart, closedSum, clients>>

\* aiInsights = generateAIInsights(fleetMetrics, paretoData)
CallGenerateAIInsights ==
  /\ ret.op = "calculateFleetMetrics"
  /\ ret2.op = "calculatePareto"
  /\ insights = NoCall
  /\ insights' = [op |-> "generateAIInsights",
                  value |-> generateAIInsights(ret.value, ret2.value)]
  /\ ret' = [ret EXCEPT !.value = metricsAfterSort(@)]
  /\ UNCHANGED <<machines, machinesNull, history, workHours, now, ret2, stopStart, closedSum, clients>>

NextDashboard ==
  \/ CallCalculateFleetMetrics
  \/ CallParetoData
  \/ CallGenerateAIInsights

SpecDashboard == InitEngine /\ [][NextDashboard]_vars

-----------------------------------------------------------------------------
(* services/api.ts, the local store (mockStore) *)

\* getInitialMachines: every machine running, counters at zero
getInitialMachines(t) ==
  [i \in 1..NumMachines |->
     [id |-> i,
      name |-> IF i = 1 THEN "Modeladora 1" ELSE "Modeladora 2",
      status |-> RUNNING,
      reason |-> JSNull,
      lastUpdated |-> toISOString(t),
      accumulatedDowntimeMs |-> 0,
      notes |-> "",
      lastOperator |-> "Sistema",
      productionCount |-> 0,
      scrapCount |-> 0,
      cycleTimeValue |-> 30,
      cycleTimeUnit |-> SECONDS]]

\* data.machines.find(m => m.id === machineId): its index, 0 when there is none
FindMachine(ms, machineId) ==
  IF \E k \in 1..Len(ms) : ms[k].id = machineId
  THEN CHOOSE k \in 1..Len(ms) :
         ms[k].id = machineId /\ \A j \in 1..(k - 1) : ms[j].id # machineId
  ELSE 0

\* mutant: the time since lastUpdated is added whenever the new status is running
NewAccumulatedAnyRunning(machine, status, config, t) ==
  IF status = RUNNING
  THEN machine.accumulatedDowntimeMs
         + calculateActiveDowntime(machine.lastUpdated, config, t)
  ELSE machine.accumulatedDowntimeMs

\* let newAccumulated ... (lines 192-198)
NewAccumulated(machine, status, config, t) ==
  IF machine.status = STOPPED /\ status = RUNNING
  THEN machine.accumulatedDowntimeMs
         + calculateActiveDowntime(machine.lastUpdated, config, t)
  ELSE machine.accumulatedDowntimeMs

\* mutant: the reason passed by the caller is stored whatever the status
UpdatedMachineKeepReason(machine, status, reason, notes, operator, config, t) ==
  [machine EXCEPT
     !.status = status,
     !.reason = reason,
     !.lastUpdated = toISOString(t),
     !.accumulatedDowntimeMs = NewAccumulated(machine, status, config, t),
     !.notes = IF status = RUNNING THEN "" ELSE notes,
     !.lastOperator = operator]

UpdatedMachine(machine, status, reason, notes, operator, config, t) ==
  [machine EXCEPT
     !.status = status,
     !.reason = IF status = RUNNING THEN JSNull ELSE reason,
     !.lastUpdated = toISOString(t),
     !.accumulatedDowntimeMs = NewAccumulated(machine, status, config, t),
     !.notes = IF status = RUNNING THEN "" ELSE notes,
     !.lastOperator = operator]

\* mutant: the new status is logged as the previous one too
NewLogPreviousIsNew(machine, machineId, status, reason, t) ==
  [machineId |-> machineId,
   previousStatus |-> status,
   newStatus |-> status,
   reason |-> IF status = STOPPED THEN reason ELSE JSNull,
   timestamp |-> toISOString(t)]

NewLog(machine, machineId, status, reason, t) ==
  [machineId |-> machineId,
   previousStatus |-> machine.status,
   newStatus |-> status,
   reason |-> IF status = STOPPED THEN reason ELSE JSNull,
   timestamp |-> toISOString(t)]

\* data.machines.map(m => m.id === machineId ? updatedMachine : m)
ReplaceById(ms, machineId, updated) ==
  [k \in 1..Len(ms) |-> IF ms[k].id = machineId THEN updated ELSE ms[k]]

\* ghosts: a stoppage begins when a running machine is stopped and closes when a
\* stopped machine is set running; its working time is then added to closedSum.
\* A manual adjustment replaces the sum by the supervisor's figure, a reset by 0.
GhostStopStart(k, status, t) ==
  IF machines[k].status = RUNNING /\ status = STOPPED
  THEN [stopStart EXCEPT ![k] = t]
  ELSE stopStart

GhostClosedSum(k, status, t) ==
  IF machines[k].status = STOPPED /\ status = RUNNING
  THEN [closedSum EXCEPT ![k] = @ + workingMsBetween(stopStart[k], t, workHours)]
  ELSE closedSum

\* what a call of api.updateStatus returned: <<>> for null, <<r>> for the
\* object r that holds the machine and the log
UpdateStatusRecord(machineId, v) ==
  [op |-> "updateStatus", machineId |-> machineId, threw |-> FALSE, value |-> v]

\* api.updateStatus, local branch; the clock readings of one call are one instant
UpdateStatus ==
  /\ Len(history) < MaxSteps
  /\ \E machineId \in 1..(NumMachines + 1), status \in {RUNNING, STOPPED},
        reason \in {"A", JSNull} :
       LET k == FindMachine(machines, machineId) IN
       IF k = 0
       THEN /\ ret' = UpdateStatusRecord(machineId, <<>>)
            /\ UNCHANGED <<machines, history, stopStart, closedSum>>
       ELSE LET updatedMachine == UpdatedMachine(machines[k], status, reason, "obs",
                                                 "Operador Turno A", workHours, now)
                newLog == NewLog(machines[k], machineId, status, reason, now)
            IN  /\ machines' = ReplaceById(machines, machineId, updatedMachine)
                /\ history' = Append(history, newLog)
                /\ ret' = UpdateStatusRecord(machineId,
                                             <<[machine |-> updatedMachine, log |-> newLog]>>)
                /\ stopStart' = GhostStopStart(k, status, now)
                /\ closedSum' = GhostClosedSum(k, status, now)
  /\ UNCHANGED <<machinesNull, workHours, now, ret2, insights, clients>>

\* api.updateAccumulatedTime, local branch
SetAccumulated(ms, id, ms_) ==
  [k \in 1..Len(ms) |->
     IF ms[k].id = id
     THEN [ms[k] EXCEPT !.accumulatedDowntimeMs = ms_,
                        !.lastOperator = "Supervisor (Manual)"]
     ELSE ms[k]]

UpdateAccumulatedTime ==
  /\ \E id \in 1..NumMachines, ms_ \in {45} :
       /\ machines' = SetAccumulated(machines, id, ms_)
       /\ closedSum' = [closedSum EXCEPT ![id] = ms_]
  /\ UNCHANGED <<machinesNull, history, workHours, now, ret, ret2, insights, stopStart, clients>>

\* api.resetDaily, local branch
ResetMachines(ms, t) ==
  [k \in 1..Len(ms) |->
     [ms[k] EXCEPT !.productionCount = 0,
                   !.scrapCount = 0,
                   !.accumulatedDowntimeMs = 0,
                   !.lastUpdated = toISOString(t)]]

ResetDaily ==
  /\ machines' = ResetMachines(machines, now)
  /\ closedSum' = [k \in 1..NumMachines |-> 0]
  /\ UNCHANGED <<machinesNull, history, workHours, now, ret, ret2, insights, stopStart, clients>>

\* the store is created at 07:30, half an hour before the shift starts, and
\* the wall clock advances by half an hour at a time
StoreStart == Today + 7 * 60 + 30

TickStep == 30

Tick ==
  /\ now + TickStep <= StoreStart + MaxTicks * TickStep
  /\ now' = now + TickStep
  /\ UNCHANGED <<machines, machinesNull, history, workHours, ret, ret2, insights, stopStart,
                 closedSum, clients>>

Init ==
  /\ machines = getInitialMachines(StoreStart)
  /\ machinesNull = FALSE
  /\ history = <<>>
  /\ workHours = INITIAL_WORK_HOURS
  /\ now = StoreStart
  /\ ret = NoCall
  /\ ret2 = NoCall
  /\ insights = NoCall
  /\ stopStart = [k \in 1..NumMachines |-> StoreStart]
  /\ closedSum = [k \in 1..NumMachines |-> 0]
  /\ clients = NoClients

Next ==
  \/ UpdateStatus
  \/ UpdateAccumulatedTime
  \/ ResetDaily
  \/ Tick

Spec == Init /\ [][Next]_vars

-----------------------------------------------------------------------------
(* services/api.ts, the remote branch (Supabase), called by the clients of  *)
(* context/MachineContext.tsx.  machines and history are the remote tables; *)
(* a call of api.updateStatus is a chain of requests, each served           *)
(* atomically, with other clients' requests served in between.              *)

\* the machine row and its event when the clients load the data: machine 1
\* stopped at 07:30, ten minutes of downtime consolidated before
RemoteRow == Machine(1, STOPPED, StoreStart, 10, 0, 0, 30, SECONDS)

RemoteHistory == <<Event(1, STOPPED, "A", StoreStart)>>

\* api.loadFullData, remote branch: the two tables as they are
loadFullData == [machines |-> machines, history |-> history]

\* setMachines(prev => prev.map(...)) of updateMachineStatus, line 85
OptimisticUpdate(ms, id, status, reason, notes, operator, t) ==
  [k \in 1..Len(ms) |->
     IF ms[k].id = id
     THEN [ms[k] EXCEPT !.status = status,
                        !.reason = reason,
                        !.notes = notes,
                        !.lastOperator = operator,
                        !.lastUpdated = toISOString(t)]
     ELSE ms[k]]

\* updateMachineStatus up to the first request of api.updateStatus: the
\* optimistic update of the client's view, then the select of the machine
\* row; a machine that is not in the table makes the call return null
updateMachineStatus(c) ==
  /\ clients[c].pc = "idle"
  /\ \E machineId \in {1, 2}, status \in {RUNNING, STOPPED} :
       LET k == FindMachine(machines, machineId)
           view == [clients[c].view EXCEPT
                      !.machines = OptimisticUpdate(@, machineId, status, "B", "obs",
                                                    "Operador Turno A", now)]
       IN  clients' = [clients EXCEPT ![c] =
             IF k = 0
             THEN [pc |-> "done", machineId |-> machineId, view |-> view]
             ELSE [pc |-> "selected",
                   machineId |-> machineId,
                   status |-> status,
                   reason |-> "B",
                   currentMachine |-> machines[k],
                   view |-> view]]
  /\ UNCHANGED <<machines, machinesNull, history, workHours, now, ret, ret2, insights,
                 stopStart, closedSum>>

\* let newAccumulated ... (lines 115-123), on the row that was selected
RemoteNewAccumulated(currentMachine, status, config, t) ==
  IF currentMachine.status = STOPPED /\ status = RUNNING
  THEN currentMachine.accumulatedDowntimeMs
         + calculateActiveDowntime(currentMachine.lastUpdated, config, t)
  ELSE currentMachine.accumulatedDowntimeMs

\* the select has answered: the client reads the clock and builds the update
RemoteCompute(c) ==
  /\ clients[c].pc = "selected"
  /\ clients' = [clients EXCEPT ![c] =
       [pc |-> "computed",
        machineId |-> @.machineId,
        status |-> @.status,
        reason |-> @.reason,
        currentMachine |-> @.currentMachine,
        newAccumulated |-> RemoteNewAccumulated(@.currentMachine, @.status, workHours, now),
        nowISO |-> toISOString(now),
        view |-> @.view]]
  /\ UNCHANGED <<machines, machinesNull, history, workHours, now, ret, ret2, insights,
                 stopStart, closedSum>>

\* .from('machines').update({...}).eq('id', machineId), lines 128-141
RemoteUpdatedRow(row, call) ==
  [row EXCEPT
     !.status = call.status,
     !.reason = IF call.status = RUNNING THEN JSNull ELSE call.reason,
     !.lastUpdated = call.nowISO,
     !.accumulatedDowntimeMs = call.newAccumulated,
     !.notes = IF call.status = RUNNING THEN "" ELSE "obs",
     !.lastOperator = "Operador Turno A"]

RemoteUpdate(c) ==
  /\ clients[c].pc = "computed"
  /\ LET k == FindMachine(machines, clients[c].machineId)
         updated == RemoteUpdatedRow(machines[k], clients[c])
     IN  /\ machines' = ReplaceById(machines, clients[c].machineId, updated)
         /\ clients' = [clients EXCEPT ![c] =
              [pc |-> "updated",
               machineId |-> @.machineId,
               status |-> @.status,
               reason |-> @.reason,
               currentMachine |-> @.currentMachine,
               newAccumulated |-> @.newAccumulated,
               nowISO |-> @.nowISO,
               updatedMachine |-> updated,
               view |-> @.view]]
  /\ UNCHANGED <<machinesNull, history, workHours, now, ret, ret2, insights, stopStart,
                 closedSum>>

\* if (updateError) throw updateError, line 143: the row is as it was
RemoteUpdateError(c) ==
  /\ clients[c].pc = "computed"
  /\ clients' = [clients EXCEPT ![c].pc = "threw"]
  /\ UNCHANGED <<machines, machinesNull, history, workHours, now, ret, ret2, insights,
                 stopStart, closedSum>>

\* .from('history').insert({...}), lines 146-157
RemoteNewLog(call) ==
  [machineId |-> call.machineId,
   previousStatus |-> call.currentMachine.status,
   newStatus |-> call.status,
   reason |-> IF call.status = STOPPED THEN call.reason ELSE JSNull,
   timestamp |-> call.nowISO]

RemoteInsert(c) ==
  /\ clients[c].pc = "updated"
  /\ history' = Append(history, RemoteNewLog(clients[c]))
  /\ clients' = [clients EXCEPT ![c] =
       [pc |-> "returned",
        machineId |-> @.machineId,
        status |-> @.status,
        reason |-> @.reason,
        currentMachine |-> @.currentMachine,
        newAccumulated |-> @.newAccumulated,
        nowISO |-> @.nowISO,
        updatedMachine |-> @.updatedMachine,
        newLog |-> RemoteNewLog(clients[c]),
        view |-> @.view]]
  /\ UNCHANGED <<machines, machinesNull, workHours, now, ret, ret2, insights, stopStart,
                 closedSum>>

\* if (logError) throw logError, line 159: the updated row stays
RemoteInsertError(c) ==
  /\ clients[c].pc = "updated"
  /\ clients' = [clients EXCEPT ![c].pc = "threw"]
  /\ UNCHANGED <<machines, machinesNull, history, workHours, now, ret, ret2, insights,
                 stopStart, closedSum>>

\* if (result && result.machine) ..., MachineContext lines 90-96
ApplyResult(c) ==
  /\ clients[c].pc = "returned"
  /\ clients' = [clients EXCEPT
       ![c].pc = "done",
       ![c].view = [machines |-> ReplaceById(@.machines, clients[c].machineId,
                                             clients[c].updatedMachine),
                    history |-> Append(@.history, clients[c].newLog)]]
  /\ UNCHANGED <<machines, machinesNull, history, workHours, now, ret, ret2, insights,
                 stopStart, closedSum>>

\* catch (e) { ... loadData() }, MachineContext lines 97-101
RevertOnError(c) ==
  /\ clients[c].pc = "threw"
  /\ clients' = [clients EXCEPT ![c].pc = "done", ![c].view = loadFullData]
  /\ UNCHANGED <<machines, machinesNull, history, workHours, now, ret, ret2, insights,
                 stopStart, closedSum>>

\* the clients have loaded the data (loadData on mount) and made no call yet
InitRemote ==
  /\ machines = <<RemoteRow>>
  /\ machinesNull = FALSE
  /\ history = RemoteHistory
  /\ workHours = INITIAL_WORK_HOURS
  /\ now = StoreStart
  /\ ret = NoCall
  /\ ret2 = NoCall
  /\ insights = NoCall
  /\ stopStart = NoGhost
  /\ closedSum = NoGhost
  /\ clients = [c \in 1..NumClients |->
                  [pc |-> "idle",
                   view |-> [machines |-> <<RemoteRow>>, history |-> RemoteHistory]]]

NextRemote ==
  \/ \E c \in 1..NumClients : updateMachineStatus(c)
  \/ \E c \in 1..NumClients : RemoteCompute(c)
  \/ \E c \in 1..NumClients : RemoteUpdate(c)
  \/ \E c \in 1..NumClients : RemoteUpdateError(c)
  \/ \E c \in 1..NumClients : RemoteInsert(c)
  \/ \E c \in 1..NumClients : RemoteInsertError(c)
  \/ \E c \in 1..NumClients : ApplyResult(c)
  \/ \E c \in 1..NumClients : RevertOnError(c)
  \/ Tick

SpecRemote == InitRemote /\ [][NextRemote]_vars

-----------------------------------------------------------------------------
(* The daily reset: checkReset of context/MachineContext.tsx, run by every  *)
(* client on its timer and when workHours changes, and api.resetDaily on    *)
(* the shared machines table.  A client keeps the date of its last reset in *)
(* its own localStorage (LAST_RESET_KEY); a date is held as its day number, *)
(* NoDate when the key is not set.                                          *)

NoDate == 0 - 1

\* now.toISOString().split('T')[0]
todayStr(t) == t \div DayMin

\* shiftStartDate: today at workHours.start
shiftStartDate(t, config) == (t \div DayMin) * DayMin + config.start

\* checkReset up to its await: nothing happens unless work hours are enabled,
\* the client's last reset is not of today and the shift has started; then
\* the request of api.resetDaily leaves with the client's clock reading
checkReset(c) ==
  /\ clients[c].pc = "idle"
  /\ workHours.enabled
  /\ clients[c].lastResetDate # todayStr(now)
  /\ now >= shiftStartDate(now, workHours)
  /\ clients' = [clients EXCEPT ![c] =
       [pc |-> "resetting",
        lastResetDate |-> @.lastResetDate,
        todayStr |-> todayStr(now),
        nowISO |-> toISOString(now)]]
  /\ UNCHANGED <<machines, machinesNull, history, workHours, now, ret, ret2, insights,
                 stopStart, closedSum>>

\* api.resetDaily, remote branch: one update of every row, lines 266-277
RemoteResetMachines(ms, nowISO) ==
  [k \in 1..Len(ms) |->
     [ms[k] EXCEPT !.productionCount = 0,
                   !.scrapCount = 0,
                   !.accumulatedDowntimeMs = 0,
                   !.lastUpdated = nowISO]]

RemoteResetDaily(c) ==
  /\ clients[c].pc = "resetting"
  /\ machines' = RemoteResetMachines(machines, clients[c].nowISO)
  /\ clients' = [clients EXCEPT ![c].pc = "returned"]
  /\ UNCHANGED <<machinesNull, history, workHours, now, ret, ret2, insights, stopStart,
                 closedSum>>

\* if (error) throw error, line 279; checkReset catches it and sets no date
RemoteResetError(c) ==
  /\ clients[c].pc = "resetting"
  /\ clients' = [clients EXCEPT ![c] = [pc |-> "idle", lastResetDate |-> @.lastResetDate]]
  /\ UNCHANGED <<machines, machinesNull, history, workHours, now, ret, ret2, insights,
                 stopStart, closedSum>>

\* localStorage.setItem(LAST_RESET_KEY, todayStr), line 168
SetLastReset(c) ==
  /\ clients[c].pc = "returned"
  /\ clients' = [clients EXCEPT ![c] = [pc |-> "idle", lastResetDate |-> @.todayStr]]
  /\ UNCHANGED <<machines, machinesNull, history, workHours, now, ret, ret2, insights,
                 stopStart, closedSum>>

\* updateWorkHours: the work hours are switched on or off, or the shift start
\* is moved
ResetWorkHours ==
  {INITIAL_WORK_HOURS, WorkHoursOff, [INITIAL_WORK_HOURS EXCEPT !.start = 8 * 60 + 30]}

updateWorkHours ==
  /\ \E config \in ResetWorkHours : workHours' = config
  /\ UNCHANGED <<machines, machinesNull, history, now, ret, ret2, insights, stopStart,
                 closedSum, clients>>

\* the night passes: it is the next morning, 08:00
NextMorning ==
  /\ todayStr(now) < todayStr(StoreStart) + MaxDays
  /\ now' = (todayStr(now) + 1) * DayMin + 8 * 60
  /\ UNCHANGED <<machines, machinesNull, history, workHours, ret, ret2, insights, stopStart,
                 closedSum, clients>>

\* the row the clients share, last reset the day before, and the clients'
\* last-reset dates: the day before, or none for a browser that never reset
ResetRow == Machine(1, RUNNING, StoreStart - DayMin + 60, 45, 100, 5, 30, SECONDS)

InitReset ==
  /\ machines = <<ResetRow>>
  /\ machinesNull = FALSE
  /\ history = <<>>
  /\ workHours \in ResetWorkHours
  /\ now = StoreStart
  /\ ret = NoCall
  /\ ret2 = NoCall
  /\ insights = NoCall
  /\ stopStart = NoGhost
  /\ closedSum = NoGhost
  /\ clients \in [1..NumClients ->
                    {[pc |-> "idle", lastResetDate |-> d] :
                       d \in {NoDate, todayStr(StoreStart) - 1}}]

NextReset ==
  \/ \E c \in 1..NumClients : checkReset(c)
  \/ \E c \in 1..NumClients : RemoteResetDaily(c)
  \/ \E c \in 1..NumClients : RemoteResetError(c)
  \/ \E c \in 1..NumClients : SetLastReset(c)
  \/ updateWorkHours
  \/ NextMorning
  \/ Tick

SpecReset == InitReset /\ [][NextReset]_vars

-----------------------------------------------------------------------------
(* Properties *)

FleetMetricsReturned == ret.op = "calculateFleetMetrics" /\ ~ret.threw

ParetoReturned == ret.op = "calculatePareto" /\ ~ret.threw

IntervalsReturned == ret.op = "getDowntimeIntervals" /\ ~ret.threw

\* what the call took as planned production time and as a machine's run time
PlannedOfCall == getElapsedShiftTimeTodayMs(workHours, ret.clk[2])

RunTimeOfCall(k) == Max2(0, PlannedOfCall - ret.value[k].totalDowntimeMs)

CycleOf(k) == CycleTimeSeconds(machines[k])

TotalProducedOf(k) == machines[k].productionCount + machines[k].scrapCount

ProductOfReturned(e) ==
  RoundTenths(Rat(e.availability * e.performance * e.quality, 10000000))

\* C2 as stated: the returned oee equals returned availability/100 *
\* performance/100 * quality/100 * 100, rounded to one decimal place.
C2_OeeIsProductOfReturned ==
  FleetMetricsReturned =>
    \A k \in 1..Len(ret.value) : ret.value[k].oee = ProductOfReturned(ret.value[k])

\* availability * performance * quality of the unrounded, unclamped factors:
\* run time and produced total cancel, leaving good units times the ideal
\* cycle over the planned time; 0 when there is no run time or no output
RawOee(k) ==
  IF PlannedOfCall > 0 /\ RunTimeOfCall(k) > 0 /\ TotalProducedOf(k) > 0
  THEN Rat(machines[k].productionCount * CycleOf(k) * 100, PlannedOfCall * 60)
  ELSE <<0, 1>>

\* C2 amended: the returned oee is the product of the unrounded, unclamped
\* availability, performance and quality (as fractions, times 100), rounded to
\* one decimal place and then clamped to [0, 100].
C2_OeeIsClampedRawProduct ==
  FleetMetricsReturned =>
    \A k \in 1..Len(ret.value) :
      ret.value[k].oee = Min2(1000, Max2(0, RoundTenths(RawOee(k))))

\* an entry with an oee strictly between 0 and 100 has been returned
C2_Witness ==
  /\ FleetMetricsReturned
  /\ \E k \in 1..Len(ret.value) : ret.value[k].oee > 0 /\ ret.value[k].oee < 1000

Range(seq) == {seq[k] : k \in DOMAIN seq}

\* the event logs that store the events of logs in another order
Reorderings(logs) ==
  {[k \in 1..Len(logs) |-> logs[p[k]]] : p \in Permutations(1..Len(logs))}

\* C3: from any permutation of the event log, with the same snapshots, config
\* and now, getDowntimeIntervals yields the same set of intervals, also when
\* events of one machine carry the same timestamp.
C3_OrderIndependent ==
  IntervalsReturned =>
    \A logs \in Reorderings(history) :
      Range(getDowntimeIntervals(logs, machines, workHours, {}, ret.clk[1]))
        = Range(ret.value)

\* C4: a machine's accumulatedDowntimeMs equals the working time of its
\* stoppages closed since the last reset (or manual adjustment): nothing of a
\* stoppage in progress is in it, and nothing of a closed one is missing.
C4_AccumulatedIsClosedSum ==
  \A k \in 1..Len(machines) : machines[k].accumulatedDowntimeMs = closedSum[k]

\* C5: the accumulatedPercent of the list calculatePareto returns never
\* decreases along the list, and is 100 (within 1) at the last item when the
\* total duration is above 0.
C5_CumulativePercent ==
  ParetoReturned =>
    /\ \A k \in 1..(Len(ret.value) - 1) :
         ret.value[k].accumulatedPercent <= ret.value[k + 1].accumulatedPercent
    /\ SumGroups(ret.value) > 0 =>
         ret.value[Len(ret.value)].accumulatedPercent \in 99..101

\* a list of two or more causes, the first of them short of 100%
C5_Witness ==
  /\ ParetoReturned
  /\ Len(ret.value) >= 2
  /\ ret.value[1].accumulatedPercent \in 1..99

\* C6: two calls of calculateFleetMetrics (or calculatePareto) with identical
\* machines, event log and config, made at the same instant, return identical
\* output.
C6_SameInputsSameOutput ==
  ret2 # NoCall => (ret2.threw = ret.threw /\ ret2.value = ret.value)

\* the events of machine id that stop it within the 30 days before t
StopsInWindow(id, t) ==
  {k \in 1..Len(history) :
     /\ history[k].machineId = id
     /\ history[k].newStatus = STOPPED
     /\ getTime(history[k].timestamp) >= t - THIRTY_DAYS_MS}

\* C7: a machine with no stop event in the 30-day window gets failureCount 0,
\* mttr 0 and mtbf 720 hours.
C7_NoStopInWindow ==
  FleetMetricsReturned =>
    \A k \in 1..Len(ret.value) :
      StopsInWindow(machines[k].id, ret.clk[1]) = {} =>
        /\ ret.value[k].failureCount = 0
        /\ ret.value[k].mttr = 0
        /\ ret.value[k].mtbf = 7200

\* C8: calculateFleetMetrics returns one entry per input machine, in the order
\* of the input list, each with that machine's id and name.
C8_OneEntryPerMachine ==
  FleetMetricsReturned =>
    /\ Len(ret.value) = Len(machines)
    /\ \A k \in 1..Len(machines) :
         /\ ret.value[k].machineId = machines[k].id
         /\ ret.value[k].machineName = machines[k].name

\* two machines measured, one of them absent from a non-empty event log
C8_Witness ==
  /\ FleetMetricsReturned
  /\ Len(machines) = 2
  /\ history # <<>>
  /\ \E k \in 1..2 : \A i \in 1..Len(history) : history[i].machineId # machines[k].id

MachineIds == {machines[k].id : k \in 1..Len(machines)}

\* the events of logs whose machine is (known = TRUE) or is not in the snapshots
EventsOf(logs, known) ==
  SelectSeq(logs, LAMBDA e : (e.machineId \in MachineIds) = known)

\* the stoppages reconstructed from the events of machines without a snapshot
OrphanIntervals == getDowntimeIntervals(EventsOf(history, FALSE), <<>>, workHours, {}, ret.clk[1])

\* those of the machines with a snapshot
KnownIntervals ==
  getDowntimeIntervals(EventsOf(history, TRUE), machines, workHours, {}, ret.clk[1])

CountOfReason(intervals, reason) ==
  Cardinality({k \in 1..Len(intervals) : intervals[k].reason = reason})

ReasonsOf(intervals) == {intervals[k].reason : k \in 1..Len(intervals)}

\* C9: events of a machine absent from the snapshot list change no machine's
\* metrics, and the stoppages reconstructed from them are counted in the
\* Pareto groups.
C9_OrphanEvents ==
  /\ FleetMetricsReturned =>
       ret.value = calculateFleetMetrics(machines, EventsOf(history, TRUE), workHours, ret.clk)
  /\ ParetoReturned =>
       /\ \A r \in ReasonsOf(OrphanIntervals) \cup ReasonsOf(KnownIntervals) :
            \E k \in 1..Len(ret.value) :
              /\ ret.value[k].reason = r
              /\ ret.value[k].count
                   = CountOfReason(OrphanIntervals, r) + CountOfReason(KnownIntervals, r)
       /\ SumGroups(ret.value) = SumDuration(OrphanIntervals) + SumDuration(KnownIntervals)

\* a Pareto list that counts a stoppage of a machine absent from a non-empty
\* snapshot list
C9_Witness ==
  /\ ParetoReturned
  /\ machines # <<>>
  /\ OrphanIntervals # <<>>

\* C10: given an empty or a null machine list, calculateFleetMetrics returns
\* an empty array and raises nothing.
C10_NoDataNotFailure ==
  ret.op = "calculateFleetMetrics" /\ (machinesNull \/ machines = <<>>) =>
    ~ret.threw /\ ret.value = <<>>

\* C11: the engine calls leave their inputs as they were: the event log keeps
\* its order and content and the machine list is not modified by
\* getDowntimeIntervals, calculateFleetMetrics and calculatePareto, and
\* generateAIInsights modifies neither the metrics nor the Pareto array.
C11_InputsUnchanged ==
  [][/\ history' = history
     /\ machines' = machines
     /\ insights' # insights => (ret'.value = ret.value /\ ret2'.value = ret2.value)]_vars

\* the three calls made on a log stored out of timestamp order and on
\* metrics that are not in ascending oee order
C11_Witness ==
  /\ insights # NoCall
  /\ Len(history) = 2
  /\ getTime(history[1].timestamp) > getTime(history[2].timestamp)
  /\ Len(ret.value) = 2
  /\ ret.value[1].oee > ret.value[2].oee

\* C12: every stored history event whose new status is running has a null
\* reason, and every stored machine whose status is running has a null reason.
C12_ReasonOnlyWhenStopped ==
  /\ \A i \in 1..Len(history) :
       history[i].newStatus = RUNNING => history[i].reason = JSNull
  /\ \A k \in 1..Len(machines) :
       machines[k].status = RUNNING => machines[k].reason = JSNull

\* a machine that was stopped for a reason has been set running again
C12_Witness ==
  \E i, j \in 1..Len(history), k \in 1..Len(machines) :
    /\ i < j
    /\ history[i].machineId = machines[k].id
    /\ history[j].machineId = machines[k].id
    /\ history[i].newStatus = STOPPED
    /\ history[i].reason = "A"
    /\ history[j].newStatus = RUNNING
    /\ machines[k].status = RUNNING

-----------------------------------------------------------------------------
(* The replay, stated on the timestamp-sorted log S without replaying it.  *)

\* index of the last event of machine m among the first k events of S, or 0
LastEventOf(S, m, k) ==
  IF \E j \in 1..k : S[j].machineId = m
  THEN CHOOSE j \in 1..k :
         S[j].machineId = m /\ \A i \in (j + 1)..k : S[i].machineId # m
  ELSE 0

\* index of the stop event whose stoppage of m is open after the first k
\* events of S, or 0: the last event of m, when it is a stop
OpenStopOf(S, m, k) ==
  LET j == LastEventOf(S, m, k) IN
  IF j > 0 /\ S[j].newStatus = STOPPED THEN j ELSE 0

\* the closed interval from the stop event S[j] to the running event S[r]
ClosedFrom(S, j, r) ==
  [machineId |-> S[r].machineId,
   reason |-> ReasonOrUnknown(S[j].reason),
   start |-> getTime(S[j].timestamp),
   end |-> getTime(S[r].timestamp),
   duration |-> getTime(S[r].timestamp) - getTime(S[j].timestamp)]

\* the open interval of machine m begun by the stop event S[j], at instant t
OpenFrom(S, j, m, config, t) ==
  [machineId |-> m,
   reason |-> ReasonOrUnknown(S[j].reason),
   start |-> getTime(S[j].timestamp),
   end |-> t,
   duration |-> calculateActiveDowntime(S[j].timestamp, config, t)]

\* the pairs of stop events of one machine with no event of it between them
ConsecutiveStops(S) ==
  {p \in (1..Len(S)) \X (1..Len(S)) :
     /\ p[1] < p[2]
     /\ S[p[1]].machineId = S[p[2]].machineId
     /\ S[p[1]].newStatus = STOPPED
     /\ S[p[2]].newStatus = STOPPED
     /\ \A i \in (p[1] + 1)..(p[2] - 1) : S[i].machineId # S[p[1]].machineId}

\* index of the first event of machine m after the k-th event of S, or 0
NextEventOf(S, m, k) ==
  IF \E j \in (k + 1)..Len(S) : S[j].machineId = m
  THEN CHOOSE j \in (k + 1)..Len(S) :
         S[j].machineId = m /\ \A i \in (k + 1)..(j - 1) : S[i].machineId # m
  ELSE 0

StopsOf(S, m) == {j \in 1..Len(S) : S[j].machineId = m /\ S[j].newStatus = STOPPED}

IntervalsOf(intervals, m) == {k \in 1..Len(intervals) : intervals[k].machineId = m}

\* C13: of two consecutive stop events of one machine the second overwrites
\* the first: after it the machine's open stoppage is the second's, the
\* interval produced next for the machine starts at the second stop with the
\* second's reason, and the first stop yields no interval.
C13_SecondStopOverwrites ==
  IntervalsReturned =>
    LET S == sortedLogs(history) IN
    /\ \A p \in ConsecutiveStops(S) :
         LET m == S[p[2]].machineId
             r == NextEventOf(S, m, p[2])
             st == Replay(SubSeq(S, 1, p[2]), EmptyReplay, {})
         IN  /\ st.activeStops[m] = [start |-> getTime(S[p[2]].timestamp),
                                     reason |-> ReasonOrUnknown(S[p[2]].reason)]
             /\ (r > 0 /\ S[r].newStatus = RUNNING) =>
                  ClosedFrom(S, p[2], r) \in Range(ret.value)
             /\ (r = 0 /\ \E k \in 1..Len(machines) :
                             machines[k].id = m /\ machines[k].status = STOPPED) =>
                  OpenFrom(S, p[2], m, workHours, ret.clk[1]) \in Range(ret.value)
    /\ \A m \in {S[j].machineId : j \in 1..Len(S)} :
         Cardinality(IntervalsOf(ret.value, m))
           <= Cardinality(StopsOf(S, m))
                - Cardinality({p \in ConsecutiveStops(S) : S[p[1]].machineId = m})

\* a machine stopped for reason A, stopped again later without a reason and
\* then set running: the one interval it gets is the second stop's
C13_Witness ==
  /\ IntervalsReturned
  /\ Len(history) = 3
  /\ \E p \in ConsecutiveStops(sortedLogs(history)) :
       LET S == sortedLogs(history) IN
       /\ getTime(S[p[1]].timestamp) < getTime(S[p[2]].timestamp)
       /\ S[p[1]].reason = "A"
       /\ S[p[2]].reason = JSNull
       /\ S[3].newStatus = RUNNING
       /\ S[3].machineId = S[p[1]].machineId
       /\ Len(ret.value) = 1
       /\ ret.value[1].reason = "Desconhecido"

\* the closed intervals that the first k events of S produce, in order: one
\* for each running event of a machine whose stoppage is open just before it
RECURSIVE ClosedExpected(_, _)
ClosedExpected(S, k) ==
  IF k = 0 THEN <<>>
  ELSE LET j == OpenStopOf(S, S[k].machineId, k - 1) IN
       IF S[k].newStatus = RUNNING /\ j > 0
       THEN Append(ClosedExpected(S, k - 1), ClosedFrom(S, j, k))
       ELSE ClosedExpected(S, k - 1)

\* the returned intervals that end before the call's clock reading
ClosedReturned == SelectSeq(ret.value, LAMBDA i : i.end # ret.clk[1])

\* C14: a running event for a machine with an open stoppage produces exactly
\* one closed interval, from the stop's timestamp to its own, of their raw
\* difference as duration and with the stop's reason, and removes the open
\* stoppage; a running event for a machine without one produces nothing.
\* [stop@08:10 (A), run@08:40] gives one closed interval of 30 minutes, reason A.
C14_RunningClosesInterval ==
  IntervalsReturned =>
    /\ ClosedReturned = ClosedExpected(sortedLogs(history), Len(history))
    /\ getDowntimeIntervals(<<Event(1, STOPPED, "A", Today + 8 * 60 + 10),
                              Event(1, RUNNING, JSNull, Today + 8 * 60 + 40)>>,
                            machines, workHours, {}, ret.clk[1])
         = <<[machineId |-> 1, reason |-> "A", start |-> Today + 8 * 60 + 10,
              end |-> Today + 8 * 60 + 40, duration |-> 30]>>

\* a stoppage from 07:00, before the shift, closed at 09:00 counts 120 minutes;
\* a second running event of the machine adds nothing
C14_Witness ==
  /\ IntervalsReturned
  /\ Len(history) = 3
  /\ \A i \in 1..3 : history[i].machineId = 1
  /\ history[1].newStatus = STOPPED /\ getTime(history[1].timestamp) = TPre
  /\ history[2].newStatus = RUNNING /\ getTime(history[2].timestamp) = TIn
  /\ history[3].newStatus = RUNNING /\ getTime(history[3].timestamp) = TIn
  /\ Len(ret.value) = 1
  /\ ret.value[1].duration = 120

\* the open intervals at instant t: one for each machine of the list, in the
\* list's order, that is stopped and whose stoppage is open at the end of S
RECURSIVE OpenExpected(_, _, _, _)
OpenExpected(S, ms, config, t) ==
  IF ms = <<>> THEN <<>>
  ELSE LET m == ms[Len(ms)]
           j == OpenStopOf(S, m.id, Len(S))
           before == OpenExpected(S, SubSeq(ms, 1, Len(ms) - 1), config, t)
       IN  IF m.status = STOPPED /\ j > 0
           THEN Append(before, OpenFrom(S, j, m.id, config, t))
           ELSE before

\* C15: after the replay one open interval is added for exactly the machines
\* of the snapshot list that are stopped and still have an open stoppage:
\* start = the open instant, end = now, duration = the shift-clipped
\* calculateActiveDowntime(start, config, now); a running snapshot gets none.
C15_OpenIntervals ==
  IntervalsReturned =>
    LET open == OpenExpected(sortedLogs(history), machines, workHours, ret.clk[1])
        n == Len(ret.value) - Len(open)
    IN  /\ n >= 0
        /\ SubSeq(ret.value, n + 1, Len(ret.value)) = open
        /\ \A k \in 1..n : ret.value[k].end # ret.clk[1]

\* machine 1 is stopped and its stoppage, open since 07:00, counts the 120
\* minutes of the shift up to 10:00; machine 2, whose last event is a stop
\* too, has no snapshot in the list
C15_Witness ==
  /\ IntervalsReturned
  /\ Len(machines) = 1
  /\ \E i, j \in 1..Len(history) :
       /\ history[i].machineId = 1 /\ history[i].newStatus = STOPPED
       /\ getTime(history[i].timestamp) = TPre
       /\ history[j].machineId = 2 /\ history[j].newStatus = STOPPED
  /\ Len(ret.value) = 1
  /\ ret.value[1].end = ret.clk[1]
  /\ ret.value[1].duration = 120

\* the intervals of machine id that end within the 30 days before instant t
IntervalsInWindow(intervals, id, t) ==
  SelectSeq(FilterByMachine(intervals, id), LAMBDA i : i.end >= t - THIRTY_DAYS_MS)

\* C16: failureCount, and with it MTTR and MTBF, counts only the machine's
\* intervals of the last 30 days; older stoppages do not contribute.
C16_OnlyLastThirtyDays ==
  FleetMetricsReturned =>
    LET intervals == getDowntimeIntervals(history, machines, workHours, {}, ret.clk[1]) IN
    \A k \in 1..Len(ret.value) :
      LET inWindow == IntervalsInWindow(intervals, machines[k].id, ret.clk[1]) IN
      /\ ret.value[k].failureCount = Len(inWindow)
      /\ ret.value[k].mttr
           = MathRound(IF Len(inWindow) > 0
                       THEN Rat(SumDuration(inWindow), Len(inWindow))
                       ELSE <<0, 1>>)

\* C17: totalDowntimeMs is accumulatedDowntimeMs plus, only for a stopped
\* machine, the shift-clipped active downtime since lastUpdated; with
\* runTime = max(0, planned - downtimeToday), availability is
\* runTime / planned * 100, and 0 when planned is 0 or downtimeToday >= planned.
C17_DowntimeAndAvailability ==
  FleetMetricsReturned =>
    \A k \in 1..Len(ret.value) :
      LET live == IF machines[k].status = STOPPED
                  THEN calculateActiveDowntime(machines[k].lastUpdated, workHours,
                                               ret.clk[2 + k])
                  ELSE 0
          downtimeToday == machines[k].accumulatedDowntimeMs + live
          planned == PlannedOfCall
          runTime == Max2(0, planned - downtimeToday)
      IN  /\ ret.value[k].totalDowntimeMs = downtimeToday
          /\ ret.value[k].availability
               = IF planned = 0 \/ downtimeToday >= planned
                 THEN 0
                 ELSE RoundTenths(Rat(runTime * 100, planned))

\* a stopped machine with downtime accumulated earlier today and a stoppage in
\* progress that together leave part of the planned time as run time
C17_Witness ==
  /\ FleetMetricsReturned
  /\ \E k \in 1..Len(ret.value) :
       /\ machines[k].status = STOPPED
       /\ machines[k].accumulatedDowntimeMs > 0
       /\ ret.value[k].totalDowntimeMs > machines[k].accumulatedDowntimeMs
       /\ ret.value[k].availability \in 1..999

\* the cycle time of machine k in seconds, by its unit; 30 when the value is
\* missing, zero or negative
NormalizedCycle(k) ==
  LET m == machines[k] IN
  IF "cycleTimeValue" \notin DOMAIN m THEN 30
  ELSE IF m.cycleTimeValue <= 0 THEN 30
  ELSE IF m.cycleTimeUnit = HOURS THEN m.cycleTimeValue * 3600
  ELSE IF m.cycleTimeUnit = MINUTES THEN m.cycleTimeValue * 60
  ELSE m.cycleTimeValue

\* (good + scrap) / (runTimeSeconds / cycleTimeSeconds) * 100, one decimal
PerformanceFormula(k) ==
  RoundTenths(Rat(TotalProducedOf(k) * NormalizedCycle(k) * 100, RunTimeOfCall(k) * 60))

\* good / (good + scrap) * 100, one decimal
QualityFormula(k) ==
  RoundTenths(Rat(machines[k].productionCount * 100, TotalProducedOf(k)))

BadCycleTime(k) ==
  "cycleTimeValue" \notin DOMAIN machines[k] \/ machines[k].cycleTimeValue <= 0

\* C19: calculateFleetMetrics does not fail on malformed machine data and
\* uses the fallbacks: a missing, zero or negative cycle time counts as 30
\* seconds; zero planned production time gives 0% availability; zero
\* theoretical maximum production gives 0% performance; zero total produced
\* units gives 100% quality.
C19_Fallbacks ==
  (ret.op = "calculateFleetMetrics" /\ ~ret.nullArg) =>
    /\ ~ret.threw
    /\ Len(ret.value) = Len(machines)
    /\ \A k \in 1..Len(ret.value) :
         /\ (BadCycleTime(k) /\ RunTimeOfCall(k) > 0) =>
              ret.value[k].performance
                = Min2(1000, RoundTenths(Rat(TotalProducedOf(k) * 30 * 100,
                                             RunTimeOfCall(k) * 60)))
         /\ PlannedOfCall = 0 => ret.value[k].availability = 0
         /\ RunTimeOfCall(k) = 0 => ret.value[k].performance = 0
         /\ TotalProducedOf(k) = 0 => ret.value[k].quality = 1000

\* a machine whose record holds no cycle time has been measured at 30 s a unit
C19_Witness ==
  /\ FleetMetricsReturned
  /\ \E k \in 1..Len(ret.value) :
       /\ "cycleTimeValue" \notin DOMAIN machines[k]
       /\ ret.value[k].performance \in 1..999

\* position of the first interval with this reason among the intervals
FirstAppearance(intervals, reason) ==
  CHOOSE k \in 1..Len(intervals) :
    intervals[k].reason = reason /\ \A j \in 1..(k - 1) : intervals[j].reason # reason

\* C20: the list calculatePareto returns is in descending order of total
\* duration, and groups of equal total duration are in the order in which
\* their reasons first appeared among the intervals.
C20_ParetoOrder ==
  ParetoReturned =>
    LET intervals == getDowntimeIntervals(history, machines, workHours, {}, ret.clk[1]) IN
    \A k, l \in 1..Len(ret.value) :
      k < l =>
        /\ ret.value[k].durationMs >= ret.value[l].durationMs
        /\ ret.value[k].durationMs = ret.value[l].durationMs =>
             FirstAppearance(intervals, ret.value[k].reason)
               < FirstAppearance(intervals, ret.value[l].reason)

\* two causes of the same total duration, above 0, are listed
C20_Witness ==
  /\ ParetoReturned
  /\ Len(ret.value) = 2
  /\ ret.value[1].durationMs = ret.value[2].durationMs
  /\ ret.value[1].durationMs > 0

\* the intervals calculatePareto grouped in the call that returned
ParetoIntervals == getDowntimeIntervals(history, machines, workHours, {}, ret.clk[1])

\* total duration of the intervals with this reason
DurationOfReason(intervals, reason) ==
  SumDuration(SelectSeq(intervals, LAMBDA i : i.reason = reason))

RECURSIVE SumCounts(_)
SumCounts(items) ==
  IF items = <<>> THEN 0 ELSE Head(items).count + SumCounts(Tail(items))

\* C21: the list calculatePareto returns has exactly one item per distinct
\* reason string of the intervals ("A" and "a" are distinct), an interval
\* whose stop event has no reason being counted under "Desconhecido"; an
\* item's count is the number of intervals with its reason and its durationMs
\* their summed duration, so the counts sum to the number of intervals and the
\* durations to the total downtime.
C21_GroupedByReason ==
  ParetoReturned =>
    LET intervals == ParetoIntervals IN
    /\ \A k, l \in 1..Len(ret.value) : ret.value[k].reason = ret.value[l].reason => k = l
    /\ {ret.value[k].reason : k \in 1..Len(ret.value)} = ReasonsOf(intervals)
    /\ \A k \in 1..Len(ret.value) :
         /\ ret.value[k].count = CountOfReason(intervals, ret.value[k].reason)
         /\ ret.value[k].durationMs = DurationOfReason(intervals, ret.value[k].reason)
    /\ SumCounts(ret.value) = Len(intervals)
    /\ SumGroups(ret.value) = SumDuration(intervals)
    /\ \A k \in 1..Len(intervals) :
         \E j \in 1..Len(history) :
           /\ history[j].machineId = intervals[k].machineId
           /\ history[j].newStatus = STOPPED
           /\ getTime(history[j].timestamp) = intervals[k].start
           /\ intervals[k].reason =
                IF history[j].reason = JSNull THEN "Desconhecido" ELSE history[j].reason

\* reasons "A" and "a" are both listed, one of them for two intervals
C21_Witness ==
  /\ ParetoReturned
  /\ \E k, l \in 1..Len(ret.value) :
       /\ ret.value[k].reason = "A"
       /\ ret.value[l].reason = "a"
       /\ ret.value[k].count + ret.value[l].count = 3

\* C22: each item's accumulatedPercent is a whole percent nearest to the
\* running sum of the exact percentages of the items up to and including it
\* (at most one half away from that sum, which rounding each item's percent
\* before adding would not keep), and is 0 when the total duration is 0.
C22_RoundedRunningSum ==
  ParetoReturned =>
    LET totalDuration == SumGroups(ret.value) IN
    \A k \in 1..Len(ret.value) :
      LET running == SumGroups(SubSeq(ret.value, 1, k)) * 100 IN
      IF totalDuration > 0
      THEN 2 * Abs(ret.value[k].accumulatedPercent * totalDuration - running) <= totalDuration
      ELSE ret.value[k].accumulatedPercent = 0

\* three causes of one third each: 33, 67 and 100, where the rounded thirds
\* add up to 33, 66 and 99
C22_Witness ==
  /\ ParetoReturned
  /\ Len(ret.value) = 3
  /\ ret.value[1].durationMs > 0
  /\ ret.value[1].durationMs = ret.value[3].durationMs
  /\ ret.value[2].accumulatedPercent = 67

InsightsReturned == insights.op = "generateAIInsights"

\* place of a rule in the fixed order of emission
RuleRank(rule) ==
  CASE rule = "OEE Critico" -> 1
    [] rule = "Gargalo Identificado" -> 2
    [] rule = "Causa Principal" -> 3

HasRule(rule) == \E k \in 1..Len(insights.value) : insights.value[k].rule = rule

MessageOf(rule) ==
  insights.value[CHOOSE k \in 1..Len(insights.value) : insights.value[k].rule = rule]

\* C23: generateAIInsights returns its messages in the order fleet-OEE check,
\* worst-machine check, top-cause check, each rule at most once (so at most
\* three): the first iff the sum of the machines' OEE divided by their number
\* (0 for no machine) is below 60, the second iff there is a machine and the
\* lowest OEE is below 70, naming a machine of that OEE, the third iff the
\* Pareto list is not empty, naming its first reason.
C23_InsightRules ==
  InsightsReturned =>
    LET metrics == ret.value
        pareto == ret2.value
        n == Len(metrics)
        lowest == {k \in 1..n : \A j \in 1..n : metrics[k].oee <= metrics[j].oee}
    IN
    /\ Len(insights.value) <= 3
    /\ \A k, l \in 1..Len(insights.value) :
         k < l => RuleRank(insights.value[k].rule) < RuleRank(insights.value[l].rule)
    /\ HasRule("OEE Critico") <=> SumOee(metrics) < 600 * (IF n = 0 THEN 1 ELSE n)
    /\ HasRule("Gargalo Identificado") <=> \E k \in lowest : metrics[k].oee < 700
    /\ HasRule("Gargalo Identificado") =>
         \E k \in lowest :
           /\ MessageOf("Gargalo Identificado").machineName = metrics[k].machineName
           /\ MessageOf("Gargalo Identificado").oee = metrics[k].oee
    /\ HasRule("Causa Principal") <=> Len(pareto) > 0
    /\ HasRule("Causa Principal") => MessageOf("Causa Principal").reason = pareto[1].reason

\* the fleet average is 60 or more, the worst machine is the second of the
\* list and below 70, and there is a top cause: two messages
C23_Witness ==
  /\ InsightsReturned
  /\ Len(ret.value) = 2
  /\ ret.value[2].oee < ret.value[1].oee
  /\ ~HasRule("OEE Critico")
  /\ HasRule("Gargalo Identificado")
  /\ HasRule("Causa Principal")

\* C24: a step of updateStatus on the local store (the step that appends an
\* event) adds calculateActiveDowntime(machine.lastUpdated, workHours, now) to
\* the machine's accumulatedDowntimeMs when the stored status is stopped and
\* the new one running, and leaves accumulatedDowntimeMs as it was for every
\* other transition; it sets lastUpdated to now and changes neither
\* productionCount, scrapCount, the cycle time nor any other machine.
C24_UpdateStatusAccumulation ==
  [][history' # history =>
       LET e == history'[Len(history')]
           k == FindMachine(machines, e.machineId)
       IN  /\ history' = Append(history, e)
           /\ k # 0
           /\ e.previousStatus = machines[k].status
           /\ machines'[k].status = e.newStatus
           /\ machines'[k].accumulatedDowntimeMs =
                machines[k].accumulatedDowntimeMs
                  + (IF machines[k].status = STOPPED /\ e.newStatus = RUNNING
                     THEN calculateActiveDowntime(machines[k].lastUpdated, workHours, now)
                     ELSE 0)
           /\ machines'[k].lastUpdated = toISOString(now)
           /\ machines'[k].productionCount = machines[k].productionCount
           /\ machines'[k].scrapCount = machines[k].scrapCount
           /\ machines'[k].cycleTimeValue = machines[k].cycleTimeValue
           /\ machines'[k].cycleTimeUnit = machines[k].cycleTimeUnit
           /\ \A j \in 1..Len(machines) : j # k => machines'[j] = machines[j]]_vars

\* a stoppage has just been closed and its working time is in the counter,
\* after an earlier running-to-running update that added nothing
C24_Witness ==
  /\ Len(history) = 3
  /\ \A j \in 1..3 : history[j].machineId = 1
  /\ history[1].previousStatus = RUNNING /\ history[1].newStatus = RUNNING
  /\ history[3].previousStatus = STOPPED /\ history[3].newStatus = RUNNING
  /\ getTime(history[1].timestamp) > StoreStart + TickStep
  /\ machines[1].lastUpdated = history[3].timestamp
  /\ machines[1].accumulatedDowntimeMs = TickStep

\* the call of client c went through both requests and returned its result
Saved(c) == clients[c].pc = "done" /\ "newLog" \in DOMAIN clients[c]

\* accumulatedDowntimeMs after the calls of clients c and d served one after
\* the other on the row the clients started from, each on its own clock reading
SerialAccumulated(c, d) ==
  LET Served(row, call) ==
        RemoteUpdatedRow(row,
          [call EXCEPT !.newAccumulated =
             RemoteNewAccumulated(row, call.status, workHours, getTime(call.nowISO))])
  IN  Served(Served(RemoteRow, clients[c]), clients[d]).accumulatedDowntimeMs

\* C25: when the updateStatus calls of two clients for the same machine have
\* both returned, the row's accumulatedDowntimeMs is what the two calls give
\* when served one after the other, in one order or the other.
C25_ConcurrentUpdatesSerial ==
  (Saved(1) /\ Saved(2)) =>
    machines[1].accumulatedDowntimeMs \in {SerialAccumulated(1, 2), SerialAccumulated(2, 1)}

\* no call of api.updateStatus is between two of its requests or awaits its
\* handling by updateMachineStatus
NoCallInFlight == \A c \in 1..NumClients : clients[c].pc \in {"idle", "done"}

\* C26: once every call has been handled, failures and the reload after them
\* included, a machine row whose status is no longer the one the clients
\* loaded has an event in the history table with that machine, that new
\* status and the row's last_updated as timestamp.
C26_StatusChangeHasEvent ==
  NoCallInFlight =>
    \A k \in 1..Len(machines) :
      machines[k].status # RemoteRow.status =>
        \E j \in 1..Len(history) :
          /\ history[j].machineId = machines[k].id
          /\ history[j].newStatus = machines[k].status
          /\ history[j].timestamp = machines[k].lastUpdated

\* the events of machine id in the log, oldest first
LogOf(id) == SelectSeq(history, LAMBDA e : e.machineId = id)

\* the log of each machine of the local store is a chain that starts from
\* running and ends at the machine's status
EventChain ==
  \A k \in 1..Len(machines) :
    LET log == LogOf(machines[k].id) IN
    /\ \A j \in 1..Len(log) :
         log[j].previousStatus = IF j = 1 THEN RUNNING ELSE log[j - 1].newStatus
    /\ machines[k].status = IF log = <<>> THEN RUNNING ELSE log[Len(log)].newStatus

\* a call of updateStatus for an id that no machine has returns null and
\* leaves machines and log as they are; any other call returns a result and
\* appends its log
UpdateStatusStep ==
  (ret' # ret \/ history' # history) =>
    /\ ret'.op = "updateStatus"
    /\ IF \E k \in 1..Len(machines) : machines[k].id = ret'.machineId
       THEN /\ Len(ret'.value) = 1
            /\ history' = Append(history, ret'.value[1].log)
       ELSE /\ ret'.value = <<>>
            /\ machines' = machines
            /\ history' = history

\* C27: on the local store, after any sequence of updateStatus,
\* updateAccumulatedTime and resetDaily calls, every event's previousStatus is
\* the newStatus of the same machine's preceding event (running for its first)
\* and the newStatus of a machine's latest event is the machine's status;
\* updateStatus for an unknown machine id returns null and changes neither
\* machines nor log.
C27_EventChain == []EventChain /\ [][UpdateStatusStep]_vars

\* machine 1 was stopped and set running again, machine 2 has no event, and the
\* last call, for an unknown id, returned null
C27_Witness ==
  /\ Len(LogOf(1)) = 2
  /\ LogOf(1)[2].previousStatus = STOPPED
  /\ LogOf(2) = <<>>
  /\ machines[1].accumulatedDowntimeMs = 0
  /\ machines[1].lastUpdated # LogOf(1)[2].timestamp
  /\ ret.op = "updateStatus"
  /\ ret.value = <<>>

\* C28: a client's check starts a reset only when work hours are enabled and
\* now is at or after today's shift start, and api.resetDaily is not served
\* on a calendar day on which the shared rows were already reset (the reset
\* stamps every row's last_updated), whichever client asks for it.
C28_ResetOncePerDay ==
  [][\A c \in 1..NumClients :
       /\ (clients[c].pc = "idle" /\ clients'[c].pc = "resetting") =>
            workHours.enabled /\ now >= shiftStartDate(now, workHours)
       /\ (clients[c].pc = "resetting" /\ clients'[c].pc = "returned") =>
            \A k \in 1..Len(machines) :
              todayStr(getTime(machines[k].lastUpdated)) # todayStr(now)]_vars

\* C29: every mtbf that calculateFleetMetrics returns is 0 or more.
C29_MtbfNonNegative ==
  FleetMetricsReturned =>
    \A k \in 1..Len(ret.value) : ret.value[k].mtbf >= 0

\* C30: of the intervals getDowntimeIntervals returns, every one has a
\* duration of 0 or more and every closed one ends no earlier than it starts;
\* a machine has no more intervals than stop events, at most one interval
\* that ends at now (its open one), and closed intervals that do not overlap.
C30_IntervalsSane ==
  IntervalsReturned =>
    LET v == ret.value
        t == ret.clk[1]
        ids == {history[j].machineId : j \in 1..Len(history)} \cup MachineIds
        Closed(m) == {k \in IntervalsOf(v, m) : v[k].end # t}
    IN
    /\ \A k \in 1..Len(v) : v[k].duration >= 0
    /\ \A k \in 1..Len(v) : v[k].end # t => v[k].end >= v[k].start
    /\ \A m \in ids :
         /\ Cardinality(IntervalsOf(v, m)) <= Cardinality(StopsOf(history, m))
         /\ Cardinality(IntervalsOf(v, m) \ Closed(m)) <= 1
         /\ \A k, l \in Closed(m) :
              k < l => v[k].end <= v[l].start \/ v[l].end <= v[k].start

\* machine 1 stopped and restarted twice: two closed intervals, the first of
\* them two hours long
C30_Witness ==
  /\ IntervalsReturned
  /\ Len(ret.value) = 2
  /\ \A k \in 1..2 : ret.value[k].machineId = 1 /\ ret.value[k].end # ret.clk[1]
  /\ ret.value[1].duration > 0

====
